---------------------------- MODULE Spec2Model ----------------------------
(***************************************************************************)
(* A model of src/transformers/models/cpmant/tokenization_cpmant_fast.py:  *)
(* the vocabulary table built by CPMAntTokenizerFast.__init__, the greedy  *)
(* WordpieceTokenizer, the facade operations, the single-example builder   *)
(* _convert_to_tensors and the batch padder pad.                           *)
(*                                                                         *)
(* A Python str is modelled as the sequence of its characters, each a      *)
(* one-character TLA+ string.  A dict (collections.OrderedDict or dict,     *)
(* both insertion ordered) is a sequence of records [k |-> key, v |->      *)
(* value] in iteration order.  A torch tensor is a record [shape, data]    *)
(* with data in row-major order.  A call that raises returns               *)
(* [ok |-> FALSE, err |-> <exception name>].                               *)
(***************************************************************************)
EXTENDS Integers, Sequences, FiniteSets, TLC

VARIABLES
    status,       \* "new" | "constructed" | "failed": life of the tokenizer object
    vocab_file,   \* the lines of the vocabulary file, as readlines() returns them
    encoder,      \* self.encoder (also self.wordpiece_tokenizer.vocab: same object)
    decoder,      \* self.decoder
    pc,           \* "idle" | "wp_loop" | "returned": position of the caller
    op,           \* the operation called last
    args,         \* its arguments
    ret,          \* what it returned or raised
    chars,        \* WordpieceTokenizer.tokenize: local chars
    start,        \* WordpieceTokenizer.tokenize: local start
    sub_tokens    \* WordpieceTokenizer.tokenize: local sub_tokens

vars == <<status, vocab_file, encoder, decoder, pc, op, args, ret,
          chars, start, sub_tokens>>

(***************************************************************************)
(* Bounds of the model.                                                    *)
(***************************************************************************)
MaxTextLen == 3        \* longest input text / span drawn from Alphabet
MaxIdsLen == 2         \* longest id list / token list handed to a lookup
MaxBatch == 2          \* most bundles in one batch
MaxRowLen == 5         \* longest rank-1 / rank-2 row handed to pad
MaxDim3 == 2           \* largest dimension of a rank-3 row handed to pad

(***************************************************************************)
(* Python helpers.                                                         *)
(***************************************************************************)
Max(a, b) == IF a >= b THEN a ELSE b
Min(a, b) == IF a <= b THEN a ELSE b
SetMax(S) == CHOOSE x \in S : \A y \in S : y <= x
SetMin(S) == CHOOSE x \in S : \A y \in S : x <= y

\* range(n)
Range(n) == [i \in 1..Max(n, 0) |-> i - 1]

\* [x] * n
Repeat(x, n) == [i \in 1..Max(n, 0) |-> x]

RECURSIVE Concat(_)
\* "".join(list) / sum of lists
Concat(ss) == IF ss = <<>> THEN <<>> ELSE Head(ss) \o Concat(Tail(ss))

\* All sequences over S of length at most n
SeqsUpTo(S, n) == UNION {[1..k -> S] : k \in 0..n}

Ok(v) == [ok |-> TRUE, val |-> v]
Raise(e) == [ok |-> FALSE, err |-> e]

(***************************************************************************)
(* dict operations (insertion ordered).                                    *)
(***************************************************************************)
Keys(d) == {d[i].k : i \in DOMAIN d}
Values(d) == {d[i].v : i \in DOMAIN d}

\* key in d
DictHas(d, key) == key \in Keys(d)

\* d[key], for a key that is present
DictGet(d, key) == d[CHOOSE i \in DOMAIN d : d[i].k = key].v

\* d[key] = value: an existing key keeps its place, a new key goes last
DictSet(d, key, value) ==
    IF DictHas(d, key)
    THEN [i \in DOMAIN d |-> IF d[i].k = key THEN [k |-> key, v |-> value] ELSE d[i]]
    ELSE Append(d, [k |-> key, v |-> value])

\* del d[key], for a key that is present
DictDel(d, key) ==
    LET i == CHOOSE j \in DOMAIN d : d[j].k = key
    IN  SubSeq(d, 1, i - 1) \o SubSeq(d, i + 1, Len(d))

(***************************************************************************)
(* Special tokens: the defaults of CPMAntTokenizerFast.__init__.           *)
(***************************************************************************)
bod_token == <<"<", "d", ">">>
eod_token == <<"<", "/", "d", ">">>
bos_token == <<"<", "s", ">">>
eos_token == <<"<", "/", "s", ">">>
pad_token == <<"<", "p", "a", "d", ">">>
unk_token == <<"<", "u", "n", "k", ">">>
line_token == <<"<", "/", "n", ">">>
space_token == <<"<", "/", "_", ">">>

SpecialTokens == {bod_token, eod_token, bos_token, eos_token, pad_token,
                  unk_token, line_token, space_token}

max_input_chars_per_word == 200
DefaultPromptLength == 32
DefaultTaskId == 2

(***************************************************************************)
(* load_vocab                                                              *)
(***************************************************************************)
RECURSIVE rstrip(_)
\* token.rstrip("\n")
rstrip(s) == IF s # <<>> /\ s[Len(s)] = "\n" THEN rstrip(SubSeq(s, 1, Len(s) - 1)) ELSE s

RECURSIVE load_vocab_from(_, _, _)
load_vocab_from(tokens, index, vocab) ==
    IF index >= Len(tokens) THEN vocab
    ELSE load_vocab_from(tokens, index + 1,
                         DictSet(vocab, rstrip(tokens[index + 1]), index))

\* tokens: the list reader.readlines() returns
load_vocab(tokens) == load_vocab_from(tokens, 0, <<>>)

\* {v: k for k, v in d.items()}: a later item overwrites an earlier one
RECURSIVE InvertFrom(_, _, _)
InvertFrom(d, i, acc) ==
    IF i > Len(d) THEN acc
    ELSE InvertFrom(d, i + 1, DictSet(acc, d[i].v, d[i].k))

Invert(d) == InvertFrom(d, 1, <<>>)

(***************************************************************************)
(* CPMAntTokenizerFast.__init__ after super().__init__: the encoder with   *)
(* the space / newline takeover, or KeyError.                              *)
(***************************************************************************)
\* InitEncoder with a fault: the two placeholders are not deleted
InitEncoderKeepsPlaceholders(tokens) ==
    LET e0 == load_vocab(tokens)
    IN  IF ~DictHas(e0, space_token) THEN Raise("KeyError")
        ELSE LET e1 == DictSet(e0, <<" ">>, DictGet(e0, space_token))
             IN  IF ~DictHas(e1, line_token) THEN Raise("KeyError")
                 ELSE Ok(DictSet(e1, <<"\n">>, DictGet(e1, line_token)))

InitEncoder(tokens) ==
    LET e0 == load_vocab(tokens)
    IN  IF ~DictHas(e0, space_token) THEN Raise("KeyError")
        ELSE LET e1 == DictSet(e0, <<" ">>, DictGet(e0, space_token))
             IN  IF ~DictHas(e1, line_token) THEN Raise("KeyError")
                 ELSE LET e2 == DictSet(e1, <<"\n">>, DictGet(e1, line_token))
                          e3 == DictDel(e2, space_token)
                      IN  \* line_token is still present: it differs from space_token
                          Ok(DictDel(e3, line_token))

(***************************************************************************)
(* WordpieceTokenizer.tokenize                                             *)
(***************************************************************************)
\* InnerLoop with a fault: the candidate end grows from start + 1, so the
\* shortest match wins
InnerLoopShortest(cs, st, end, vocab) ==
    LET RECURSIVE Up(_)
        Up(e) == IF e > end THEN [found |-> FALSE, end |-> st]
                 ELSE IF DictHas(vocab, SubSeq(cs, st + 1, e))
                      THEN [found |-> TRUE, end |-> e]
                      ELSE Up(e + 1)
    IN  Up(st + 1)

RECURSIVE InnerLoop(_, _, _, _)
\* the loop "while start < end": the end it stops at, and whether it found
\* chars[start:end] in the vocabulary
InnerLoop(cs, st, end, vocab) ==
    IF ~(st < end) THEN [found |-> FALSE, end |-> end]
    ELSE IF DictHas(vocab, SubSeq(cs, st + 1, end))
         THEN [found |-> TRUE, end |-> end]
         ELSE InnerLoop(cs, st, end - 1, vocab)

\* OuterIter with a fault: the cursor is not advanced past an unknown character
OuterIterStuck(cs, st, toks, vocab, unk) ==
    LET r == InnerLoop(cs, st, Len(cs), vocab)
    IN  IF ~r.found
        THEN [start |-> st, sub_tokens |-> Append(toks, unk)]
        ELSE [start |-> r.end, sub_tokens |-> Append(toks, SubSeq(cs, st + 1, r.end))]

\* one iteration of the loop "while start < len(chars)"
OuterIter(cs, st, toks, vocab, unk) ==
    LET r == InnerLoop(cs, st, Len(cs), vocab)
    IN  IF ~r.found
        THEN [start |-> st + 1, sub_tokens |-> Append(toks, unk)]
        ELSE [start |-> r.end, sub_tokens |-> Append(toks, SubSeq(cs, st + 1, r.end))]

RECURSIVE OuterLoop(_, _, _, _, _)
OuterLoop(cs, st, toks, vocab, unk) ==
    IF ~(st < Len(cs)) THEN toks
    ELSE LET n == OuterIter(cs, st, toks, vocab, unk)
         IN  OuterLoop(cs, n.start, n.sub_tokens, vocab, unk)

TooLong(token) == Len(token) > max_input_chars_per_word

WordpieceTokenize(token, vocab, unk) ==
    IF TooLong(token) THEN <<unk>>
    ELSE OuterLoop(token, 0, <<>>, vocab, unk)


(***************************************************************************)
(* The external word segmenter jieba.cut, by its contract: an ordered      *)
(* sequence of non-empty substrings whose concatenation is the text.       *)
(***************************************************************************)
RECURSIVE Cuts(_)
Cuts(text) ==
    IF text = <<>> THEN {<<>>}
    ELSE UNION {{<<SubSeq(text, 1, k)>> \o c : c \in Cuts(SubSeq(text, k + 1, Len(text)))}
                : k \in 1..Len(text)}

(***************************************************************************)
(* CPMAntTokenizerFast: the facade.  enc is self.encoder, dec is           *)
(* self.decoder, spans is what jieba.cut(text) yields.                     *)
(***************************************************************************)
\* self.encoder[token] of the properties bod_id .. unk_id, newline_id
RoleId(enc, token) ==
    IF DictHas(enc, token) THEN Ok(DictGet(enc, token)) ELSE Raise("KeyError")

RECURSIVE TokenizeSpans(_, _)
\* tokenize: output_tokens.extend(self.wordpiece_tokenizer.tokenize(x)) for each span
TokenizeSpans(enc, spans) ==
    IF spans = <<>> THEN <<>>
    ELSE WordpieceTokenize(Head(spans), enc, unk_token) \o TokenizeSpans(enc, Tail(spans))

\* encode: [self.encoder[x] for x in self.tokenize(text)]
EncodeSpans(enc, spans) ==
    LET toks == TokenizeSpans(enc, spans)
    IN  IF \E i \in DOMAIN toks : ~DictHas(enc, toks[i]) THEN Raise("KeyError")
        ELSE Ok([i \in DOMAIN toks |-> DictGet(enc, toks[i])])

\* [i for i in tokens if i >= 0]
NonNegative(ids) == SelectSeq(ids, LAMBDA i : i >= 0)

\* decode
DecodeIds(dec, ids) ==
    LET tokens == NonNegative(ids)
    IN  IF \E i \in DOMAIN tokens : ~DictHas(dec, tokens[i]) THEN Raise("KeyError")
        ELSE Ok(Concat([i \in DOMAIN tokens |-> DictGet(dec, tokens[i])]))

\* check
CheckToken(enc, token) == DictHas(enc, token)

\* convert_tokens_to_ids: the default self.encoder[self.unk_token] is evaluated
\* for every x, before the lookup
ConvertTokensToIds(enc, tokens) ==
    IF tokens # <<>> /\ ~DictHas(enc, unk_token) THEN Raise("KeyError")
    ELSE Ok([i \in DOMAIN tokens |->
                IF DictHas(enc, tokens[i]) THEN DictGet(enc, tokens[i])
                ELSE DictGet(enc, unk_token)])

\* convert_ids_to_tokens
ConvertIdsToTokens(dec, ids) ==
    IF \E i \in DOMAIN ids : ids[i] >= 0 /\ ~DictHas(dec, ids[i]) THEN Raise("KeyError")
    ELSE Ok([i \in DOMAIN ids |-> IF ids[i] >= 0 THEN DictGet(dec, ids[i]) ELSE unk_token])

RECURSIVE SaveFrom(_, _, _, _, _, _)
\* the loop of save_vocabulary: the characters written, whether it warned and
\* whether the call of logging.warning raised.  logging is the module
\* transformers.utils.logging, not the logger of this file: has_warning tells
\* whether that module offers a function warning.  Without it the first
\* entry whose id differs from index raises AttributeError before it is
\* written, and the file keeps what was written until then.
SaveFrom(enc, i, index, written, warned, has_warning) ==
    IF i > Len(enc) THEN [file |-> written, warned |-> warned, raised |-> FALSE]
    ELSE LET mismatch == index # enc[i].v
             index1 == IF mismatch THEN enc[i].v ELSE index
         IN  IF mismatch /\ ~has_warning
             THEN [file |-> written, warned |-> warned, raised |-> TRUE]
             ELSE SaveFrom(enc, i + 1, index1 + 1, written \o enc[i].k \o <<"\n">>,
                           warned \/ mismatch, has_warning)

\* save_vocabulary: the file written and whether it warned, or the
\* AttributeError and the file left behind
SaveVocabulary(enc, has_warning) ==
    LET s == SaveFrom(enc, 1, 0, <<>>, FALSE, has_warning)
    IN  IF s.raised THEN [ok |-> FALSE, err |-> "AttributeError", file |-> s.file]
        ELSE Ok([file |-> s.file, warned |-> s.warned])

(***************************************************************************)
(* Tensors.                                                                *)
(***************************************************************************)
Tensor(shape, data) == [kind |-> "tensor", shape |-> shape, data |-> data]
PyList(items) == [kind |-> "list", items |-> items]
PyInt(n) == [kind |-> "int", val |-> n]

IsTensor(x) == x.kind = "tensor"
IsList(x) == x.kind = "list"

\* torch.tensor(list of int).int().unsqueeze(0); every value of the model is
\* within the 32 bits of .int()
IntRow(list) == Tensor(<<1, Len(list)>>, list)

\* torch.tensor(list of bool).int().unsqueeze(0)
BoolRow(list) == Tensor(<<1, Len(list)>>, [i \in DOMAIN list |-> IF list[i] THEN 1 ELSE 0])

\* torch.tensor(n).int().unsqueeze(0)
IntScalarRow(n) == Tensor(<<1>>, <<n>>)

Product(shape, from) ==
    LET RECURSIVE P(_)
        P(i) == IF i > Len(shape) THEN 1 ELSE shape[i] * P(i + 1)
    IN  P(from)

\* x[0] of a tensor of rank >= 1 with a non-empty first dimension
TensorIndex0(t) == Tensor(Tail(t.shape), SubSeq(t.data, 1, Product(t.shape, 2)))

\* the start and stop a Python slice [lo:hi] selects in a dimension of size n
\* (None is passed as 0 for lo and as n for hi)
SliceStart(lo, n) == IF lo < 0 THEN Max(n + lo, 0) ELSE Min(lo, n)
SliceStop(hi, n) == IF hi < 0 THEN Max(n + hi, 0) ELSE Min(hi, n)

\* torch.cat(ts, dim=0) of tensors of one rank
Cat(ts) ==
    IF \E i \in DOMAIN ts : Tail(ts[i].shape) # Tail(ts[1].shape)
    THEN Raise("RuntimeError")
    ELSE LET RECURSIVE Rows(_)
             Rows(i) == IF i > Len(ts) THEN 0 ELSE ts[i].shape[1] + Rows(i + 1)
         IN  Ok(Tensor(<<Rows(1)>> \o Tail(ts[1].shape),
                       Concat([i \in DOMAIN ts |-> ts[i].data])))

(***************************************************************************)
(* pad                                                                     *)
(***************************************************************************)
\* lines 57-67: the rows to pad, one tensor each, or the exception raised
PadItems(orig_items, key) ==
    LET first == orig_items[1][key]
    IN  IF IsList(first)
        THEN IF first.items = <<>> THEN Raise("IndexError")
             ELSE IF ~IsTensor(first.items[1]) THEN Raise("TypeError")
             ELSE Ok(Concat([i \in DOMAIN orig_items |-> orig_items[i][key].items]))
        ELSE IF first.shape[1] = 0 THEN Raise("IndexError")
             ELSE IF ~IsTensor(TensorIndex0(first)) THEN Raise("TypeError")
             ELSE Ok([i \in DOMAIN orig_items |-> orig_items[i][key]])

\* whether a value of size n can be assigned to a slice of size s (broadcasting)
Fits(n, s) == n = s \/ n = 1

\* the slice of dimension 1 written for a row of n elements in a dimension of size m
PadSlice(n, m, padding_side) ==
    IF padding_side = "left"
    THEN [lo |-> SliceStart(-n, m), hi |-> m]
    ELSE [lo |-> 0, hi |-> SliceStop(n, m)]

\* lines 82 and 86-91, dim == 2: row i of torch.zeros(...) + padding_value after
\* tensor[i, -len(item[key][0]):] = item[key][0] (or [: len(...)])
PadRow2(item, m, padding_value, padding_side) ==
    LET row == TensorIndex0(item)
        n == row.shape[1]
        sl == PadSlice(n, m, padding_side)
    IN  IF ~Fits(n, sl.hi - sl.lo) THEN Raise("RuntimeError")
        ELSE Ok([j \in 1..m |->
                    IF sl.lo < j /\ j <= sl.hi
                    THEN row.data[IF n = 1 THEN 1 ELSE j - sl.lo]
                    ELSE padding_value])

\* lines 84 and 92-96, dim == 3: block i, of shape (m, last), of
\* torch.zeros(...) + padding_value after
\* tensor[i, -len(item[key][0]):, :] = item[key][0] (or [: len(...), :])
PadRow3(item, m, last, padding_value, padding_side) ==
    LET blk == TensorIndex0(item)
        a == blk.shape[1]
        b == blk.shape[2]
        sl == PadSlice(a, m, padding_side)
    IN  IF ~(Fits(a, sl.hi - sl.lo) /\ Fits(b, last)) THEN Raise("RuntimeError")
        ELSE Ok([x \in 1..(m * last) |->
                    LET j == ((x - 1) \div last) + 1
                        k == ((x - 1) % last) + 1
                    IN  IF sl.lo < j /\ j <= sl.hi
                        THEN blk.data[((IF a = 1 THEN 1 ELSE j - sl.lo) - 1) * b
                                      + (IF b = 1 THEN 1 ELSE k)]
                        ELSE padding_value])

\* lines 69-98
PadTensors(items, padding_value, padding_side) ==
    LET batch_size == Len(items)
        shape == items[1].shape
        dim == Len(shape)
        lengths == {items[i].shape[Len(items[i].shape)] : i \in DOMAIN items}
        max_length == SetMax(lengths)
        min_length == SetMin(lengths)
    IN  IF ~(dim <= 3) THEN Raise("AssertionError")
        ELSE IF dim = 1 THEN Cat(items)
        ELSE IF dim = 2 /\ max_length = min_length THEN Cat(items)
        ELSE IF dim = 2
        THEN LET rows == [i \in DOMAIN items |->
                             PadRow2(items[i], max_length, padding_value, padding_side)]
             IN  IF \E i \in DOMAIN rows : ~rows[i].ok THEN Raise("RuntimeError")
                 ELSE Ok(Tensor(<<batch_size, max_length>>,
                                Concat([i \in DOMAIN rows |-> rows[i].val])))
        ELSE LET last == shape[Len(shape)]
                 rows == [i \in DOMAIN items |->
                             PadRow3(items[i], max_length, last, padding_value, padding_side)]
             IN  IF \E i \in DOMAIN rows : ~rows[i].ok THEN Raise("RuntimeError")
                 ELSE Ok(Tensor(<<batch_size, max_length, last>>,
                                Concat([i \in DOMAIN rows |-> rows[i].val])))

\* pad(orig_items, key, padding_value, padding_side)
Pad(orig_items, key, padding_value, padding_side) ==
    LET items == PadItems(orig_items, key)
    IN  IF ~items.ok THEN items
        ELSE PadTensors(items.val, padding_value, padding_side)

(***************************************************************************)
(* _convert_to_tensors and get_model_input                                 *)
(***************************************************************************)
\* DropUnk with a fault: nothing is dropped
DropUnkKeepsAll(ids, unk_id) == ids

\* [j for j in input_ids if j != self.unk_id]
DropUnk(ids, unk_id) == SelectSeq(ids, LAMBDA j : j # unk_id)

\* [x + prompt_length * task_id for x in range(prompt_length)]
PromptPrefix(prompt_length, task_id) ==
    [i \in DOMAIN Range(prompt_length) |-> Range(prompt_length)[i] + prompt_length * task_id]

\* Bundle with a fault: segment labels the whole input, not the content, with 2
BundleSegmentTooLong(prompt_length, task_id, input_ids) ==
    LET input == PromptPrefix(prompt_length, task_id) \o input_ids
    IN  [input    |-> IntRow(input),
         length   |-> IntScalarRow(Len(input)),
         position |-> IntRow(Range(Len(input))),
         span     |-> IntRow(Repeat(0, Len(input))),
         context  |-> BoolRow(Repeat(TRUE, Len(input))),
         segment  |-> IntRow(Repeat(0, prompt_length) \o Repeat(2, Len(input)))]

\* lines 285-293: the bundle for the prefix length and the content ids
Bundle(prompt_length, task_id, input_ids) ==
    LET input == PromptPrefix(prompt_length, task_id) \o input_ids
    IN  [input    |-> IntRow(input),
         length   |-> IntScalarRow(Len(input)),
         position |-> IntRow(Range(Len(input))),
         span     |-> IntRow(Repeat(0, Len(input))),
         context  |-> BoolRow(Repeat(TRUE, Len(input))),
         segment  |-> IntRow(Repeat(0, prompt_length) \o Repeat(2, Len(input_ids)))]

\* _convert_to_tensors(input_text, prompt_length, task_id), spans = jieba.cut(input_text)
ConvertToTensors(enc, spans, prompt_length, task_id) ==
    LET bos == RoleId(enc, bos_token)
        ids == EncodeSpans(enc, spans)
        unk == RoleId(enc, unk_token)
    IN  IF ~bos.ok THEN bos
        ELSE IF ~ids.ok THEN ids
        ELSE IF ~unk.ok THEN unk
        ELSE Ok(Bundle(prompt_length, task_id, DropUnk(<<bos.val>> \o ids.val, unk.val)))

BundleKeys == {"input", "length", "position", "span", "context", "segment"}

\* get_model_input(text_list), cuts[i] = jieba.cut(text_list[i])
GetModelInput(enc, cuts) ==
    LET input_tensors == [i \in DOMAIN cuts |->
                             ConvertToTensors(enc, cuts[i], DefaultPromptLength, DefaultTaskId)]
    IN  IF \E i \in DOMAIN cuts : ~input_tensors[i].ok THEN Raise("KeyError")
        ELSE IF cuts = <<>> THEN Raise("IndexError")
        ELSE LET bundles == [i \in DOMAIN cuts |-> input_tensors[i].val]
                 padded == [key \in BundleKeys |-> Pad(bundles, key, 0, "left")]
             IN  IF \E key \in BundleKeys : ~padded[key].ok THEN Raise("RuntimeError")
                 ELSE Ok([key \in BundleKeys |-> padded[key].val])

(***************************************************************************)
(* Inputs.                                                                 *)
(***************************************************************************)
Alphabet == {"a", "b", "c"}

Line(token) == token \o <<"\n">>

\* every special token, then a, b, ab, the two placeholders last
FullTokens == <<pad_token, unk_token, bos_token, eos_token, bod_token, eod_token,
                <<"a">>, <<"b">>, <<"a", "b">>, space_token, line_token>>

\* the vocabulary of the segmentation example, with the two placeholders
ExampleTokens == <<unk_token, bos_token, <<"a">>, <<"b">>, <<"a", "b">>,
                   space_token, line_token>>

Without(tokens, t) == SelectSeq(tokens, LAMBDA x : x # t)

FileOf(tokens) == [i \in DOMAIN tokens |-> Line(tokens[i])]

Texts == SeqsUpTo(Alphabet, MaxTextLen)

\* a span one character longer than the guard, and one exactly as long
LongSpan == [i \in 1..(max_input_chars_per_word + 1) |-> "a"]
GuardSpan == [i \in 1..max_input_chars_per_word |-> "a"]

\* the spans handed to the segmenter; the span as long as the guard only when
\* the vocabulary holds it whole
Spans(vocab) ==
    Texts \cup {LongSpan} \cup (IF DictHas(vocab, GuardSpan) THEN {GuardSpan} ELSE {})

VocabFiles ==
    {FileOf(FullTokens)}
    \cup {FileOf(Without(FullTokens, t)) : t \in SpecialTokens}
    \* the placeholders first
    \cup {FileOf(<<space_token, line_token>>
                 \o Without(Without(FullTokens, space_token), line_token))}
    \* a duplicate line
    \cup {FileOf(FullTokens \o << <<"a">> >>)}
    \* a literal " " line
    \cup {FileOf(<< <<" ">> >> \o FullTokens)}
    \* a token as long as the guard
    \cup {FileOf(<<GuardSpan>> \o FullTokens)}
    \* the last line without its newline
    \cup {FileOf(SubSeq(ExampleTokens, 1, Len(ExampleTokens) - 1)) \o <<line_token>>}

\* what jieba.cut may yield for the texts
TextCuts == UNION {Cuts(t) : t \in Texts}
\* batches of texts of at most one character
BatchCuts == SeqsUpTo({<<>>} \cup {<< <<c>> >> : c \in Alphabet}, MaxBatch)

IdPool == (-1)..(Len(FullTokens) + 1)
IdLists == SeqsUpTo(IdPool, MaxIdsLen)

TokenPool == {<<"a">>, <<"c">>, <<" ">>, unk_token, space_token, bod_token}
TokenLists == SeqsUpTo(TokenPool, MaxIdsLen)

PromptLengths == {0, 2, DefaultPromptLength}
TaskIds == {0, DefaultTaskId}

\* the i-th row of a batch, of the given shape: its values are 10 * i + 1, ...
RowOf(i, shape) == Tensor(shape, [j \in 1..Product(shape, 1) |-> 10 * i + j])

Shapes1 == {<<n>> : n \in 0..MaxRowLen}
Shapes2 == {<<1, n>> : n \in 0..MaxRowLen}
Shapes3 == {<<1, a, b>> : a \in 0..MaxDim3, b \in 0..MaxDim3}
Shapes4 == {<<1, 1, 1, 1>>}

\* batches of rows of one rank
ShapeLists ==
    UNION {UNION {[1..n -> S] : n \in 1..MaxBatch} : S \in {Shapes1, Shapes2, Shapes3, Shapes4}}

\* one bundle per row, the field "x" holding the row
TensorBatch(shapes) == [i \in DOMAIN shapes |-> [x |-> RowOf(i, shapes[i])]]
\* one bundle per row, the field "x" holding a list of that one row
ListBatch(shapes) == [i \in DOMAIN shapes |-> [x |-> PyList(<<RowOf(i, shapes[i])>>)]]

PadBatches ==
    {TensorBatch(s) : s \in ShapeLists}
    \cup {ListBatch(s) : s \in ShapeLists}
    \cup {<<[x |-> PyList(<<>>)]>>, <<[x |-> PyList(<<PyInt(1), PyInt(2)>>)]>>}

PaddingValues == {0, -1}
PaddingSides == {"left", "right"}

(***************************************************************************)
(* The state machine.                                                      *)
(***************************************************************************)
None == <<>>

Init ==
    /\ status = "new"
    /\ vocab_file = None
    /\ encoder = <<>>
    /\ decoder = <<>>
    /\ pc = "idle"
    /\ op = "none"
    /\ args = None
    /\ ret = None
    /\ chars = <<>>
    /\ start = 0
    /\ sub_tokens = <<>>

Locals == <<chars, start, sub_tokens>>
Tables == <<status, vocab_file, encoder, decoder>>

\* a call of a function or method that returns (or raises) r
Call(name, a, r) ==
    /\ pc = "idle"
    /\ pc' = "returned"
    /\ op' = name
    /\ args' = a
    /\ ret' = r
    /\ UNCHANGED Locals

\* the tokenizer is built and the caller is about to call
Ready == status = "constructed" /\ pc = "idle"

\* CPMAntTokenizerFast(vocab_file)
Construct ==
    /\ status = "new"
    /\ pc = "idle"
    /\ \E file \in VocabFiles :
          LET e == InitEncoder(file)
          IN  /\ Call("__init__", <<file>>, IF e.ok THEN Ok(None) ELSE e)
              /\ vocab_file' = file
              /\ status' = IF e.ok THEN "constructed" ELSE "failed"
              /\ encoder' = IF e.ok THEN e.val ELSE <<>>
              /\ decoder' = IF e.ok THEN Invert(e.val) ELSE <<>>

\* the caller takes the result
Return ==
    /\ pc = "returned"
    /\ pc' = "idle"
    /\ op' = "none"
    /\ args' = None
    /\ ret' = None
    /\ chars' = <<>>
    /\ start' = 0
    /\ sub_tokens' = <<>>
    /\ UNCHANGED Tables

\* a method of the tokenizer that assigns no attribute
Method(name, a, r) ==
    /\ Call(name, a, r)
    /\ UNCHANGED Tables

VocabSize == Ready /\ Method("vocab_size", None, Ok(Len(encoder)))

\* the properties bod_id, eod_id, eos_id, bos_id, pad_id, unk_id, newline_id
RoleTokens ==
    [bod_id |-> bod_token, eod_id |-> eod_token, eos_id |-> eos_token,
     bos_id |-> bos_token, pad_id |-> pad_token, unk_id |-> unk_token,
     newline_id |-> <<"\n">>]

Role ==
    /\ Ready
    /\ \E name \in DOMAIN RoleTokens : Method(name, None, RoleId(encoder, RoleTokens[name]))

Tokenize ==
    /\ Ready
    /\ \E spans \in TextCuts : Method("tokenize", <<spans>>, Ok(TokenizeSpans(encoder, spans)))

Encode ==
    /\ Ready
    /\ \E spans \in TextCuts : Method("encode", <<spans>>, EncodeSpans(encoder, spans))

Decode ==
    /\ Ready
    /\ \E ids \in IdLists : Method("decode", <<ids>>, DecodeIds(decoder, ids))

Check ==
    /\ Ready
    /\ \E token \in TokenPool : Method("check", <<token>>, Ok(CheckToken(encoder, token)))

ConvertTokens ==
    /\ Ready
    /\ \E tokens \in TokenLists :
          Method("convert_tokens_to_ids", <<tokens>>, ConvertTokensToIds(encoder, tokens))

ConvertIds ==
    /\ Ready
    /\ \E ids \in IdLists :
          Method("convert_ids_to_tokens", <<ids>>, ConvertIdsToTokens(decoder, ids))

\* save_vocabulary, in an installation whose transformers.utils.logging offers
\* warning or does not
Save ==
    /\ Ready
    /\ \E has_warning \in BOOLEAN :
          Method("save_vocabulary", None, SaveVocabulary(encoder, has_warning))

ConvertToTensorsCall ==
    /\ Ready
    /\ \E spans \in TextCuts, prompt_length \in PromptLengths, task_id \in TaskIds :
          Method("_convert_to_tensors", <<spans, prompt_length, task_id>>,
                 ConvertToTensors(encoder, spans, prompt_length, task_id))

GetModelInputCall ==
    /\ Ready
    /\ \E cuts \in BatchCuts : Method("get_model_input", <<cuts>>, GetModelInput(encoder, cuts))

\* pad reads no tokenizer state: it is called before the tokenizer is built
PadCall ==
    /\ status = "new"
    /\ pc = "idle"
    /\ \E orig_items \in PadBatches, padding_value \in PaddingValues,
          padding_side \in PaddingSides :
          Method("pad", <<orig_items, padding_value, padding_side>>,
                 Pad(orig_items, "x", padding_value, padding_side))

\* self.wordpiece_tokenizer.tokenize(token): lines 119-124
WpCall ==
    /\ Ready
    /\ \E token \in Spans(encoder) :
          /\ op' = "wordpiece"
          /\ args' = <<token>>
          /\ chars' = token
          /\ IF TooLong(token)
             THEN /\ pc' = "returned"
                  /\ ret' = Ok(<<unk_token>>)
                  /\ UNCHANGED <<start, sub_tokens>>
             ELSE /\ pc' = "wp_loop"
                  /\ ret' = None
                  /\ start' = 0
                  /\ sub_tokens' = <<>>
    /\ UNCHANGED Tables

\* one iteration of the outer loop: lines 125-139
WpIter ==
    /\ pc = "wp_loop"
    /\ start < Len(chars)
    /\ LET n == OuterIter(chars, start, sub_tokens, encoder, unk_token)
       IN  /\ start' = n.start
           /\ sub_tokens' = n.sub_tokens
    /\ UNCHANGED <<Tables, pc, op, args, ret, chars>>

\* the loop ends: line 141
WpReturn ==
    /\ pc = "wp_loop"
    /\ ~(start < Len(chars))
    /\ pc' = "returned"
    /\ ret' = Ok(sub_tokens)
    /\ UNCHANGED <<Tables, op, args, chars, start, sub_tokens>>

Next ==
    \/ Construct
    \/ Return
    \/ VocabSize
    \/ Role
    \/ Tokenize
    \/ Encode
    \/ Decode
    \/ Check
    \/ ConvertTokens
    \/ ConvertIds
    \/ Save
    \/ ConvertToTensorsCall
    \/ GetModelInputCall
    \/ PadCall
    \/ WpCall
    \/ WpIter
    \/ WpReturn

Spec == Init /\ [][Next]_vars

\* the segmenter alone; the code is synchronous, so a started call runs on
NextWp ==
    \/ Construct
    \/ Return
    \/ WpCall
    \/ WpIter
    \/ WpReturn

FairWp == Init /\ [][NextWp]_vars /\ WF_vars(WpIter) /\ WF_vars(WpReturn)

(***************************************************************************)
(* Properties.                                                             *)
(***************************************************************************)
Returned(name) == pc = "returned" /\ op = name

\* the unknown id of a tokenizer whose vocabulary holds the unknown token
UnkId == DictGet(encoder, unk_token)

RECURSIVE Greedy(_, _, _)
\* the greedy longest-match segmentation of span from cursor st on, over the
\* vocabulary entries V
Greedy(span, st, V) ==
    IF st >= Len(span) THEN <<>>
    ELSE LET ends == {e \in (st + 1)..Len(span) : SubSeq(span, st + 1, e) \in V}
         IN  IF ends = {}
             THEN <<unk_token>> \o Greedy(span, st + 1, V)
             ELSE <<SubSeq(span, st + 1, SetMax(ends))>> \o Greedy(span, SetMax(ends), V)

ExampleVocabulary == {unk_token, bos_token, <<"a">>, <<"b">>, <<"a", "b">>, <<" ">>}

\* C1: for a span no longer than the guard WordpieceTokenizer.tokenize returns
\* the greedy longest-match segmentation (the longest vocabulary entry at the
\* cursor, else the unknown marker and a step of one); over the example
\* vocabulary "ab" gives ["ab"] and "ac" gives ["a", "<unk>"].
C1_GreedyLongestMatch ==
    (Returned("wordpiece") /\ ~TooLong(args[1])) =>
        /\ ret = Ok(Greedy(args[1], 0, Keys(encoder)))
        /\ ret = Ok(WordpieceTokenize(args[1], encoder, unk_token))
        /\ (ExampleVocabulary \subseteq Keys(encoder) /\ args[1] = <<"a", "b">>)
              => ret.val = << <<"a", "b">> >>
        /\ (ExampleVocabulary \subseteq Keys(encoder) /\ args[1] = <<"a", "c">>)
              => ret.val = << <<"a">>, unk_token >>

C1_Witness ==
    /\ Returned("wordpiece")
    /\ args[1] = <<"a", "b", "c">>
    /\ ret = Ok(<< <<"a", "b">>, unk_token >>)

\* C2: on a non-empty span no longer than the guard the segmenter terminates
\* and emits at least one token; every iteration of the outer loop leaves the
\* cursor strictly larger, and the cursor never exceeds the span length.
C2_Progress ==
    /\ [](start <= Len(chars))
    /\ []((Returned("wordpiece") /\ args[1] # <<>>) => (ret.ok /\ Len(ret.val) >= 1))
    /\ [][(pc = "wp_loop" /\ pc' = "wp_loop") => start' > start]_vars
    /\ (pc = "wp_loop") ~> Returned("wordpiece")

C2_Witness ==
    /\ Returned("wordpiece")
    /\ args[1] = <<"c", "a", "b">>
    /\ start = Len(chars)
    /\ ret = Ok(<< unk_token, <<"a", "b">> >>)

\* C3 as claimed: the input field of the bundle _convert_to_tensors returns
\* holds no element equal to the unknown id.
C3_NoUnkInInput ==
    (Returned("_convert_to_tensors") /\ ret.ok) =>
        \A i \in DOMAIN ret.val.input.data : ret.val.input.data[i] # UnkId

\* C3 as amended: the content ids, the elements of input after the first
\* prompt_length, hold no element equal to the unknown id; an element of input
\* equal to the unknown id is one of the prompt-prefix ids.
C3_NoUnkInContent ==
    (Returned("_convert_to_tensors") /\ ret.ok) =>
        LET data == ret.val.input.data
            prompt_length == args[2]
            task_id == args[3]
        IN  /\ Len(data) >= prompt_length + 1
            /\ \A i \in DOMAIN data :
                  data[i] = UnkId =>
                     /\ i <= prompt_length
                     /\ data[i] = (i - 1) + prompt_length * task_id

C3_Witness ==
    /\ Returned("_convert_to_tensors")
    /\ args = << << <<"c">>, <<"a", "c">> >>, DefaultPromptLength, DefaultTaskId >>
    /\ ret.ok
    /\ ret.val.input.shape = <<1, DefaultPromptLength + 2>>

\* the rows a batch hands to pad, one per (bundle, sub-row)
FlatRows(orig_items) ==
    IF IsList(orig_items[1].x)
    THEN Concat([i \in DOMAIN orig_items |-> orig_items[i].x.items])
    ELSE [i \in DOMAIN orig_items |-> orig_items[i].x]

AllTensors(rows) == rows # <<>> /\ \A i \in DOMAIN rows : IsTensor(rows[i])

\* rows padded to the longest, as the padding side says
ExpectedPadded(rows, padding_value, padding_side) ==
    LET m == SetMax({rows[i].shape[2] : i \in DOMAIN rows})
    IN  Tensor(<<Len(rows), m>>,
               [x \in 1..(Len(rows) * m) |->
                   LET i == ((x - 1) \div m) + 1
                       j == ((x - 1) % m) + 1
                       n == rows[i].shape[2]
                   IN  IF padding_side = "left"
                       THEN (IF j > m - n THEN rows[i].data[j - (m - n)] ELSE padding_value)
                       ELSE (IF j <= n THEN rows[i].data[j] ELSE padding_value)])

\* C4: for rank-2 rows 1 x L_i, the L_i any non-negative integers not all
\* equal, pad returns the (row_count, max L_i) container with each row's
\* values in its last L_i columns (left) or first L_i columns (right) and
\* padding_value elsewhere.
C4_PadAlignment ==
    Returned("pad") =>
        LET rows == FlatRows(args[1]) IN
        (/\ AllTensors(rows)
         /\ \A i \in DOMAIN rows : Len(rows[i].shape) = 2 /\ rows[i].shape[1] = 1
         /\ \E i, j \in DOMAIN rows : rows[i].shape[2] # rows[j].shape[2])
        => ret = Ok(ExpectedPadded(rows, args[2], args[3]))

\* the straight concatenation of rows of one shape along the batch dimension
ExpectedConcat(rows) ==
    Tensor(<<Len(rows) * rows[1].shape[1]>> \o Tail(rows[1].shape),
           Concat([i \in DOMAIN rows |-> rows[i].data]))

\* C5: when the rows of a field (rank 1, 2 or 3) all have the same length,
\* pad returns their straight concatenation along the batch dimension.
\* Stated for rows of one shape with no empty dimension.
C5_PadNoOp ==
    Returned("pad") =>
        LET rows == FlatRows(args[1]) IN
        (/\ AllTensors(rows)
         /\ Len(rows[1].shape) <= 3
         /\ \A d \in DOMAIN rows[1].shape : rows[1].shape[d] >= 1
         /\ \A i \in DOMAIN rows : rows[i].shape = rows[1].shape)
        => ret = Ok(ExpectedConcat(rows))

InverseMaps(enc, dec) ==
    /\ \A t \in Keys(enc) :
          DictHas(dec, DictGet(enc, t)) /\ DictGet(dec, DictGet(enc, t)) = t
    /\ \A i \in Keys(dec) :
          DictHas(enc, DictGet(dec, i)) /\ DictGet(enc, DictGet(dec, i)) = i

\* C6: on a constructed tokenizer encoder and decoder are exact inverses, and
\* no later operation changes either map.
C6_InverseMaps ==
    /\ [](status = "constructed" => InverseMaps(encoder, decoder))
    /\ [][status = "constructed" => (encoder' = encoder /\ decoder' = decoder)]_vars

C6_Witness ==
    /\ status = "constructed"
    /\ vocab_file = FileOf(FullTokens \o << <<"a">> >>)
    /\ Returned("get_model_input")
    /\ ret.ok

\* C7: a lookup miss is never raised: convert_tokens_to_ids gives the unknown
\* id for an absent token; convert_ids_to_tokens and decode complete for every
\* list of ids, with the unknown token for an id without an entry (decode
\* dropping the negative ids first).
C7_SoftMiss ==
    DictHas(encoder, unk_token) =>
        /\ Returned("convert_tokens_to_ids") =>
              ret = Ok([i \in DOMAIN args[1] |->
                          IF DictHas(encoder, args[1][i])
                          THEN DictGet(encoder, args[1][i]) ELSE UnkId])
        /\ Returned("convert_ids_to_tokens") =>
              ret = Ok([i \in DOMAIN args[1] |->
                          IF DictHas(decoder, args[1][i])
                          THEN DictGet(decoder, args[1][i]) ELSE unk_token])
        /\ Returned("decode") =>
              LET ids == NonNegative(args[1])
              IN  ret = Ok(Concat([i \in DOMAIN ids |->
                                     IF DictHas(decoder, ids[i])
                                     THEN DictGet(decoder, ids[i]) ELSE unk_token]))

\* C8: construction fails when a configured special token is absent from the
\* loaded vocabulary, so on a constructed tokenizer bod_id, eod_id, bos_id,
\* eos_id, pad_id and unk_id all succeed.
C8_ConstructionChecksSpecials ==
    /\ status = "constructed" => SpecialTokens \subseteq Keys(load_vocab(vocab_file))
    /\ (pc = "returned" /\ op \in {"bod_id", "eod_id", "bos_id", "eos_id", "pad_id", "unk_id"})
          => ret.ok

DistinctLines(file) == \A i, j \in DOMAIN file : rstrip(file[i]) = rstrip(file[j]) => i = j

\* the file holding the tokens of enc in ascending id order, one per line
InIdOrder(enc) ==
    LET RECURSIVE W(_)
        W(id) == IF \A v \in Values(enc) : v < id THEN <<>>
                 ELSE (IF id \in Values(enc) THEN Line(DictGet(Invert(enc), id)) ELSE <<>>)
                      \o W(id + 1)
    IN  W(0)

\* C9: for a vocabulary file of distinct tokens save_vocabulary writes the
\* tokens in ascending id order, one per entry: what is written for line k is
\* the token whose id is k.
C9_SaveInIdOrder ==
    (Returned("save_vocabulary") /\ DistinctLines(vocab_file)) =>
        /\ Values(encoder) = 0..(Len(encoder) - 1)
        /\ ret.ok
        /\ ret.val.file = InIdOrder(encoder)

\* C10: the bundle's fields input, position, span, context and segment hold
\* n = prompt_length + (ids of [bos_id] + encode(text) other than the unknown
\* id) elements each; length is n; position is 0..n-1; span is 0; context is
\* 1; the first prompt_length inputs are i + prompt_length * task_id; segment
\* is 0 on the first prompt_length positions and 2 on the rest.
C10_BundleShape ==
    (Returned("_convert_to_tensors") /\ ret.ok) =>
        LET prompt_length == args[2]
            task_id == args[3]
            ids == <<DictGet(encoder, bos_token)>> \o EncodeSpans(encoder, args[1]).val
            n == prompt_length + Cardinality({i \in DOMAIN ids : ids[i] # UnkId})
            b == ret.val
        IN  /\ \A f \in {"input", "position", "span", "context", "segment"} :
                  b[f].shape = <<1, n>> /\ Len(b[f].data) = n
            /\ b.length = Tensor(<<1>>, <<n>>)
            /\ \A i \in 1..n :
                  /\ b.position.data[i] = i - 1
                  /\ b.span.data[i] = 0
                  /\ b.context.data[i] = 1
                  /\ b.segment.data[i] = IF i <= prompt_length THEN 0 ELSE 2
                  /\ i <= prompt_length => b.input.data[i] = (i - 1) + prompt_length * task_id

C10_Witness ==
    /\ Returned("_convert_to_tensors")
    /\ vocab_file = FileOf(FullTokens)
    /\ args = << << <<"a", "b">>, <<"c">> >>, 2, DefaultTaskId >>
    /\ ret.ok
    /\ ret.val.input.data = <<4, 5, 2, 8>>
    /\ ret.val.segment.data = <<0, 0, 2, 2>>

=============================================================================
